---- MODULE Spec2Model ----
(***************************************************************************)
(* A model of the entity tracing decorators (traceloop/sdk/decorators/     *)
(* base.py) and of the Bedrock guardrail telemetry extractor               *)
(* (instrumentation/bedrock/guardrail.py).                                 *)
(*                                                                         *)
(* One call chain (a thread, or an asyncio task) is modelled: the ambient  *)
(* context of the OpenTelemetry context API is the variable ctx, attach    *)
(* and detach follow contextvars (attach returns a token remembering the   *)
(* context it replaced, detach puts that context back).                    *)
(***************************************************************************)
EXTENDS Integers, Sequences, FiniteSets, TLC

\* ---------------------------------------------------------------- bounds
\* decorated calls made in one behaviour
MaxCalls == 2
\* wrapped bodies active at once (nesting depth of plain / coroutine calls)
MaxDepth == 2
\* items an inner generator produces
MaxItems == 2

\* ------------------------------------------------------------- constants
\* base.py:24, the size below which a JSON string is attached
MaxJsonSize == 1000000

\* Python's None
None == "None"

\* TraceloopSpanKindValues (the external span-kind vocabulary)
WORKFLOW == "workflow"
AGENT == "agent"
TASK == "task"
TOOL == "tool"

\* SpanAttributes keys written by the decorators
TRACELOOP_SPAN_KIND == "traceloop.span.kind"
TRACELOOP_ENTITY_NAME == "traceloop.entity.name"
TRACELOOP_ENTITY_VERSION == "traceloop.entity.version"
TRACELOOP_ENTITY_INPUT == "traceloop.entity.input"
TRACELOOP_ENTITY_OUTPUT == "traceloop.entity.output"

VARIABLES
    initialized,  \* TracerWrapper.verify_initialized()
    env,          \* os.environ: the value of TRACELOOP_TRACE_CONTENT, None when unset
    ctx,          \* the chain's current Context (the contextvar's value)
    tokens,       \* every token attach has returned: the context it replaced
    spans,        \* every span started
    log,          \* the tracing calls made, in order
    stack,        \* wrap frames whose wrapped body is running
    gens,         \* wrapping generators returned by wrap
    result,       \* what the last finished call gave its caller, and f's own outcome
    calls,        \* decorated calls made so far
    metrics,      \* metric_params: what each instrument has recorded
    handled,      \* the guardrail responses handled so far, in order
    chain,        \* the call chain (thread or task) that is running
    parked,       \* the context and the frames of each chain that is not running
    iterated,     \* the members a consumer iterating over Instruments has got
    looked        \* the last lookup by value, Instruments(value), and what it gave

tracingVars == <<initialized, env, ctx, tokens, spans, log, stack, gens, result, calls>>
guardVars == <<metrics, handled>>
chainVars == <<chain, parked>>
registryVars == <<iterated, looked>>
vars == <<tracingVars, guardVars, chainVars, registryVars>>

\* ------------------------------------------------------- Python outcomes
Value(v) == [type |-> "value", val |-> v]
Error(e) == [type |-> "error", val |-> e]
\* a generator, coroutine or async generator object, not yet run
Object(shape) == [type |-> shape, val |-> "object"]
NoResult == [type |-> "none", val |-> None]

\* ------------------------------------------------- OpenTelemetry context
\* A Context is an immutable mapping; the keys the decorators and their
\* helpers read or write are the current span (0: no span), workflow_name,
\* entity_path (<<>>: no path; the code joins the names with ".") and
\* override_enable_content_tracing.
EmptyContext ==
    [span |-> 0, workflow_name |-> None, entity_path |-> <<>>,
     override_enable_content_tracing |-> None]

\* The world the tracing calls act on.
World == [ctx |-> ctx, tokens |-> tokens, spans |-> spans, log |-> log]

Event(e, i, k, v) == [ev |-> e, id |-> i, key |-> k, val |-> v]

\* context_api.attach(c): c becomes current; the token (its index in tokens)
\* remembers the context that was current.
attach(w, c) ==
    [w EXCEPT !.tokens = Append(@, [old |-> w.ctx, detached |-> 0]),
              !.ctx = c,
              !.log = Append(@, Event("attach", Len(w.tokens) + 1, None, None))]

\* context_api.detach(token): ContextVar.reset(token) puts back the context the
\* token remembers; a token used before raises inside detach, which logs it
\* and leaves the context alone.
detach(w, t) ==
    [w EXCEPT !.ctx = IF w.tokens[t].detached = 0 THEN w.tokens[t].old ELSE @,
              !.tokens[t].detached = @ + 1,
              !.log = Append(@, Event("detach", t, None, None))]

\* trace.set_span_in_context(span): the current context with span as current span
set_span_in_context(w, s) == [w.ctx EXCEPT !.span = s]

\* tracer.start_span(span_name): a new span, child of the current span. args,
\* res and entity_path are wrap's locals of the call that opened the span,
\* kept with it (res is None until the wrapped body has returned).
start_span(w, span_name) ==
    [w EXCEPT !.spans = Append(@, [name |-> span_name, parent |-> w.ctx.span,
                                   entity_path |-> <<>>, args |-> None, res |-> None]),
              !.log = Append(@, Event("start", Len(w.spans) + 1, None, None))]

\* span.set_attribute(key, val)
set_attribute(w, s, k, v) ==
    [w EXCEPT !.log = Append(@, Event("set_attribute", s, k, v))]

\* the point where wrap invokes the wrapped callable
invoke(w, s) == [w EXCEPT !.log = Append(@, Event("invoke", s, None, None))]

\* span.end()
span_end(w, s) == [w EXCEPT !.log = Append(@, Event("end", s, None, None))]

\* Telemetry().log_exception(e)
log_exception(w, e) == [w EXCEPT !.log = Append(@, Event("log_exception", 0, None, e))]

\* traceloop.sdk.tracing: the ambient values are written by attaching a context
\* with the value set; no token is kept.
set_workflow_name(w, n) == attach(w, [w.ctx EXCEPT !.workflow_name = n])

set_entity_path(w, p) == attach(w, [w.ctx EXCEPT !.entity_path = p])

\* the parent path with the name appended, or the name alone without a parent
get_chained_entity_path(w, n) == Append(w.ctx.entity_path, n)

\* ------------------------------------------------------------ log queries
Positions(e, i) == {n \in 1..Len(log) : log[n].ev = e /\ log[n].id = i}
Ends(s) == Cardinality(Positions("end", s))
Detaches(t) == Cardinality(Positions("detach", t))
Wrote(s, k) == \E n \in Positions("set_attribute", s) : log[n].key = k
Written(s, k, v) == \E n \in Positions("set_attribute", s) : log[n].key = k /\ log[n].val = v

\* ------------------------------------------------------ content tracing
\* str.lower(), on the values the environment variable takes in the model
lower(s) ==
    CASE s \in {"true", "True", "TRUE"} -> "true"
      [] s \in {"false", "False"} -> "false"
      [] OTHER -> s

\* Python truthiness of a value that is None, True or False
IsTrue(v) == v = "True"

\* variant: the default is taken only when the variable is unset
should_send_prompts_unset_only(e, c) ==
    IF lower(IF e = None THEN "true" ELSE e) = "true"
    THEN "True"
    ELSE c.override_enable_content_tracing

\* base.py:249-252. os.getenv gives None when the variable is unset; `x or "true"`
\* takes "true" for every falsy x, None and the empty string alike. The result is
\* True, or else the ambient override value itself.
_should_send_prompts(e, c) ==
    IF lower(IF e = None \/ e = "" THEN "true" ELSE e) = "true"
    THEN "True"
    ELSE c.override_enable_content_tracing

\* variant: a string of exactly the limit passes
is_json_size_valid_inclusive(len) == len <= MaxJsonSize

\* base.py:22-24
_is_json_size_valid(len) == len < MaxJsonSize

\* The values passed to and returned by wrapped callables, told apart by what
\* json.dumps does with them: the length of the string it returns, or the error
\* it raises (TypeError for a value that is not serializable, ValueError for a
\* circular reference).
Payloads == {"len999999", "len1000000", "unserializable", "circular"}

json_dumps(p) ==
    CASE p = "len999999" -> [raised |-> None, text |-> p, len |-> MaxJsonSize - 1]
      [] p = "len1000000" -> [raised |-> None, text |-> p, len |-> MaxJsonSize]
      [] p = "unserializable" -> [raised |-> "TypeError", text |-> None, len |-> 0]
      [] p = "circular" -> [raised |-> "ValueError", text |-> None, len |-> 0]

\* base.py:65-76 and 84-93 (167-176 and 187-196 on the asynchronous path): the
\* try block that attaches the JSON of a value to the span under key k. Only
\* TypeError is caught; any other error leaves the block and wrap.
try_set_json(w, s, k, p) ==
    IF ~IsTrue(_should_send_prompts(env, w.ctx))
    THEN [w |-> w, raised |-> None]
    ELSE LET j == json_dumps(p) IN
         IF j.raised = "TypeError"
         THEN [w |-> log_exception(w, j.raised), raised |-> None]
         ELSE IF j.raised # None
         THEN [w |-> w, raised |-> j.raised]
         ELSE [w |-> IF _is_json_size_valid(j.len)
                     THEN set_attribute(w, s, k, j.text) ELSE w,
               raised |-> None]

\* ------------------------------------------------------------ decorators
\* A decorated callable: the decorator, its arguments, and the wrapped fn (its
\* __name__ and what calling it gives: "function" runs the body and returns a
\* value, the others return a generator, coroutine or async generator object).
entity_method(name, version, tlp_span_kind, fn, shape) ==
    [dec |-> "entity_method", name |-> name, version |-> version,
     kind |-> tlp_span_kind, fn |-> fn, shape |-> shape]

aentity_method(name, version, tlp_span_kind, fn, shape) ==
    [dec |-> "aentity_method", name |-> name, version |-> version,
     kind |-> tlp_span_kind, fn |-> fn, shape |-> shape]

\* traceloop.sdk.utils.camel_to_snake, on the class names of the model
camel_to_snake(cls) ==
    CASE cls = "ImageClassifier" -> "image_classifier"
      [] OTHER -> cls

\* base.py:105-123 and 208-226: the class decorators wrap the named method
entity_class(name, version, cls, method_name, tlp_span_kind, shape) ==
    entity_method(IF name # None THEN name ELSE camel_to_snake(cls),
                  version, tlp_span_kind, method_name, shape)

aentity_class(name, version, cls, method_name, tlp_span_kind, shape) ==
    aentity_method(IF name # None THEN name ELSE camel_to_snake(cls),
                   version, tlp_span_kind, method_name, shape)

\* base.py:38 / 140: name or fn.__name__
entity_name(e) == IF e.name # None /\ e.name # "" THEN e.name ELSE e.fn

\* Whether calling e runs the wrapped body inside wrap: a plain function runs
\* when fn(...) is called, a coroutine when wrap awaits it.
RunsBody(e) ==
    \/ e.shape = "function"
    \/ e.dec = "aentity_method" /\ e.shape = "coroutine"

\* base.py:38-78 (140-178): from the entity name to the call of fn. Gives the
\* world after it, the span, the context token of line 49, and the error that
\* left wrap before fn was called, if one did.
wrap_prelude(w, e, args) ==
    LET n  == entity_name(e)
        w1 == IF e.kind \in {WORKFLOW, AGENT} THEN set_workflow_name(w, n) ELSE w
        w2 == start_span(w1, <<n, e.kind>>)
        span == Len(w2.spans)
        w3 == attach(w2, set_span_in_context(w2, span))
        token == Len(w3.tokens)
        path == get_chained_entity_path(w3, n)
        w4 == IF e.kind \in {TASK, TOOL}
              THEN [set_entity_path(w3, path) EXCEPT !.spans[span].entity_path = path]
              ELSE w3
        w5 == set_attribute(set_attribute(w4, span, TRACELOOP_SPAN_KIND, e.kind),
                            span, TRACELOOP_ENTITY_NAME, n)
        w6 == IF e.version # 0
              THEN set_attribute(w5, span, TRACELOOP_ENTITY_VERSION, ToString(e.version))
              ELSE w5
        r  == try_set_json([w6 EXCEPT !.spans[span].args = args],
                           span, TRACELOOP_ENTITY_INPUT, args)
    IN  [w |-> IF r.raised = None THEN invoke(r.w, span) ELSE r.w,
         span |-> span, token |-> token, raised |-> r.raised]

\* variant: the span is ended before the output attribute is written
wrap_finish_ends_before_output(w, span, token, res) ==
    LET r == try_set_json(span_end([w EXCEPT !.spans[span].res = res], span),
                          span, TRACELOOP_ENTITY_OUTPUT, res)
    IN  IF r.raised # None
        THEN r
        ELSE [w |-> detach(r.w, token), raised |-> None]

\* variant: wrap detaches the token attach returned last in the process
wrap_finish_detaches_latest_token(w, span, token, res) ==
    LET r == try_set_json([w EXCEPT !.spans[span].res = res],
                          span, TRACELOOP_ENTITY_OUTPUT, res)
    IN  IF r.raised # None
        THEN r
        ELSE [w |-> detach(span_end(r.w, span), Len(r.w.tokens)), raised |-> None]

\* base.py:84-98 (187-201): from the output attribute to the return
wrap_finish(w, span, token, res) ==
    LET r == try_set_json([w EXCEPT !.spans[span].res = res],
                          span, TRACELOOP_ENTITY_OUTPUT, res)
    IN  IF r.raised # None
        THEN r
        ELSE [w |-> detach(span_end(r.w, span), token), raised |-> None]

\* variant: the span is ended together with the last item
handle_generator_ends_with_last_item(w, g) ==
    LET w1 == IF g.state = "created"
              THEN attach(w, set_span_in_context(w, g.span)) ELSE w
    IN  IF g.items > 1
        THEN [w |-> w1,
              g |-> [g EXCEPT !.state = "suspended", !.items = @ - 1, !.yielded = @ + 1]]
        ELSE IF g.items = 1
        THEN [w |-> span_end(w1, g.span),
              g |-> [g EXCEPT !.state = "suspended", !.items = @ - 1, !.yielded = @ + 1]]
        ELSE [w |-> span_end(w1, g.span), g |-> [g EXCEPT !.state = "done"]]

\* base.py:229-238: one advance (next) of the wrapping generator. The first
\* advance runs the attach of line 231; an advance that finds the inner
\* generator exhausted ends the span and raises StopIteration. The token of
\* line 49 is not detached here.
_handle_generator(w, g) ==
    LET w1 == IF g.state = "created"
              THEN attach(w, set_span_in_context(w, g.span)) ELSE w
    IN  IF g.items > 0
        THEN [w |-> w1,
              g |-> [g EXCEPT !.state = "suspended", !.items = @ - 1, !.yielded = @ + 1]]
        ELSE [w |-> span_end(w1, g.span), g |-> [g EXCEPT !.state = "done"]]

\* variant: the token is detached when the generator is first advanced
ahandle_generator_detaches_at_start(w, g) ==
    LET w1 == IF g.state = "created" THEN detach(w, g.token) ELSE w
    IN  IF g.items > 0
        THEN [w |-> w1,
              g |-> [g EXCEPT !.state = "suspended", !.items = @ - 1, !.yielded = @ + 1]]
        ELSE [w |-> span_end(w1, g.span), g |-> [g EXCEPT !.state = "done"]]

\* base.py:241-246: one advance (anext) of the wrapping async generator
_ahandle_generator(w, g) ==
    IF g.items > 0
    THEN [w |-> w,
          g |-> [g EXCEPT !.state = "suspended", !.items = @ - 1, !.yielded = @ + 1]]
    ELSE [w |-> detach(span_end(w, g.span), g.token),
          g |-> [g EXCEPT !.state = "done"]]

\* -------------------------------------------------------------- guardrail
\* Python dicts are functions on their keys. d.get(k) is None for a missing
\* key; next(iter(d)) is the first key, the only one in the dicts of the model.
Get(d, k) == IF k \in DOMAIN d THEN d[k] ELSE None
FirstKey(d) == CHOOSE k \in DOMAIN d : TRUE
Put(d, k, v) == (k :> v) @@ d

\* guardrail.py:4-6, Type.value
INPUT == "input"
OUTPUT == "output"

\* SpanAttributes keys used by the extractor
LLM_TOKEN_TYPE == "gen_ai.token.type"
LLM_RESPONSE_MODEL == "gen_ai.response.model"
LLM_SYSTEM == "gen_ai.system"

\* metric_params: for each instrument, the (value, attributes) it has recorded
NoMetrics ==
    [guardrail_counter |-> <<>>, guardrail_latency_histogram |-> <<>>,
     guardrail_coverage |-> <<>>, guardrail_sensitive_info |-> <<>>,
     guardrail_topic |-> <<>>, guardrail_content |-> <<>>, guardrail_words |-> <<>>]

Rec(v, a) == [value |-> v, attributes |-> a]

\* instrument.add / record once for each attribute set of a list, in order
AddEach(m, instrument, list) ==
    [m EXCEPT ![instrument] = @ \o [i \in 1..Len(list) |-> Rec(1, list[i])]]

\* guardrail.py:9-16
is_guardrail_activated(response) ==
    IF /\ "results" \in DOMAIN response
       /\ \E i \in 1..Len(response["results"]) :
             Get(response["results"][i], "completionReason") = "CONTENT_FILTERED"
    THEN TRUE
    ELSE IF Get(response, "stopReason") = "guardrail_intervened"
    THEN TRUE
    ELSE Get(response, "amazon-bedrock-guardrailAction") # "NONE"

\* guardrail.py:18-32
handle_invoke_metrics(t, guardrail, attrs, m) ==
    IF "invocationMetrics" \notin DOMAIN guardrail
    THEN m
    ELSE LET im == guardrail["invocationMetrics"]
             a  == Put(attrs, LLM_TOKEN_TYPE, t)
             m1 == IF "guardrailProcessingLatency" \in DOMAIN im
                   THEN [m EXCEPT !.guardrail_latency_histogram =
                            Append(@, Rec(im["guardrailProcessingLatency"], a))]
                   ELSE m
         IN  IF "guardrailCoverage" \in DOMAIN im
             THEN [m1 EXCEPT !.guardrail_coverage =
                      Append(@, Rec(im["guardrailCoverage"]["textCharacters"]["guarded"], a))]
             ELSE m1

\* variant: every finding is recorded as an input finding
handle_sensitive_always_input(t, guardrail, attrs, m) ==
    IF "sensitiveInformationPolicy" \notin DOMAIN guardrail
    THEN m
    ELSE LET sensitive_info == guardrail["sensitiveInformationPolicy"]
             a == Put(attrs, "gen_ai.guardrail.type", INPUT)
             Pii(entry) == Put(a, "gen_ai.guardrail.pii", entry["type"])
             Pattern(entry) == Put(a, "gen_ai.guardrail.pattern", entry["name"])
             m1 == IF "piiEntities" \in DOMAIN sensitive_info
                   THEN AddEach(m, "guardrail_sensitive_info",
                                [i \in 1..Len(sensitive_info["piiEntities"]) |->
                                    Pii(sensitive_info["piiEntities"][i])])
                   ELSE m
         IN  IF "regexes" \in DOMAIN sensitive_info
             THEN AddEach(m1, "guardrail_sensitive_info",
                          [i \in 1..Len(sensitive_info["regexes"]) |->
                              Pattern(sensitive_info["regexes"][i])])
             ELSE m1

\* guardrail.py:34-50
handle_sensitive(t, guardrail, attrs, m) ==
    IF "sensitiveInformationPolicy" \notin DOMAIN guardrail
    THEN m
    ELSE LET sensitive_info == guardrail["sensitiveInformationPolicy"]
             a == Put(attrs, "gen_ai.guardrail.type", t)
             Pii(entry) == Put(a, "gen_ai.guardrail.pii", entry["type"])
             Pattern(entry) == Put(a, "gen_ai.guardrail.pattern", entry["name"])
             m1 == IF "piiEntities" \in DOMAIN sensitive_info
                   THEN AddEach(m, "guardrail_sensitive_info",
                                [i \in 1..Len(sensitive_info["piiEntities"]) |-> Pii(sensitive_info["piiEntities"][i])])
                   ELSE m
         IN  IF "regexes" \in DOMAIN sensitive_info
             THEN AddEach(m1, "guardrail_sensitive_info",
                                [i \in 1..Len(sensitive_info["regexes"]) |-> Pattern(sensitive_info["regexes"][i])])
             ELSE m1

\* guardrail.py:52-60
handle_topic(t, guardrail, attrs, m) ==
    IF "topicPolicy" \notin DOMAIN guardrail
    THEN m
    ELSE LET a == Put(attrs, "gen_ai.guardrail.type", t)
             Topic(topic) == Put(a, "gen_ai.guardrail.topic", topic["name"])
         IN  AddEach(m, "guardrail_topic",
                                [i \in 1..Len(guardrail["topicPolicy"]["topics"]) |-> Topic(guardrail["topicPolicy"]["topics"][i])])

\* guardrail.py:62-71
handle_content(t, guardrail, attrs, m) ==
    IF "contentPolicy" \notin DOMAIN guardrail
    THEN m
    ELSE LET a == Put(attrs, "gen_ai.guardrail.type", t)
             Content(filter) ==
                 Put(Put(a, "gen_ai.guardrail.content", filter["type"]),
                     "gen_ai.guardrail.confidence", filter["confidence"])
         IN  AddEach(m, "guardrail_content",
                                [i \in 1..Len(guardrail["contentPolicy"]["filters"]) |-> Content(guardrail["contentPolicy"]["filters"][i])])

\* guardrail.py:73-89
handle_words(t, guardrail, attrs, m) ==
    IF "wordPolicy" \notin DOMAIN guardrail
    THEN m
    ELSE LET filters == guardrail["wordPolicy"]
             a == Put(attrs, "gen_ai.guardrail.type", t)
             Match(filter) == Put(a, "gen_ai.guardrail.match", filter["match"])
             m1 == IF "customWords" \in DOMAIN filters
                   THEN AddEach(m, "guardrail_words",
                                [i \in 1..Len(filters["customWords"]) |-> Match(filters["customWords"][i])])
                   ELSE m
         IN  IF "managedWordLists" \in DOMAIN filters
             THEN AddEach(m1, "guardrail_words",
                                [i \in 1..Len(filters["managedWordLists"]) |-> Match(filters["managedWordLists"][i])])
             ELSE m1

\* guardrail.py:139-144
_handle(t, guardrail_info, attrs, m) ==
    handle_words(t, guardrail_info, attrs,
        handle_content(t, guardrail_info, attrs,
            handle_topic(t, guardrail_info, attrs,
                handle_sensitive(t, guardrail_info, attrs,
                    handle_invoke_metrics(t, guardrail_info, attrs, m)))))

\* _handle for each assessment of a list, in order
RECURSIVE HandleAll(_, _, _, _)
HandleAll(t, guardrail_infos, attrs, m) ==
    IF guardrail_infos = <<>>
    THEN m
    ELSE HandleAll(t, Tail(guardrail_infos), attrs,
                   _handle(t, Head(guardrail_infos), attrs, m))

\* guardrail.py:91-111: the metrics after guardrail_converse(response, vendor, model, m)
guardrail_converse(response, vendor, model, m) ==
    LET attrs0 == ("gen_ai.vendor" :> vendor) @@ (LLM_RESPONSE_MODEL :> model)
                      @@ (LLM_SYSTEM :> "bedrock")
        has_g == IF "trace" \in DOMAIN response
                 THEN "guardrail" \in DOMAIN response["trace"] ELSE FALSE
        g == response["trace"]["guardrail"]
        has_in == IF has_g THEN "inputAssessment" \in DOMAIN g ELSE FALSE
        has_out == IF has_g THEN "outputAssessments" \in DOMAIN g ELSE FALSE
        in_id == FirstKey(g["inputAssessment"])
        attrs1 == IF has_in THEN Put(attrs0, "gen_ai.guardrail", in_id) ELSE attrs0
        m1 == IF has_in THEN _handle(INPUT, g["inputAssessment"][in_id], attrs1, m) ELSE m
        out_id == FirstKey(g["outputAssessments"])
        attrs2 == IF has_out THEN Put(attrs1, "gen_ai.guardrail", out_id) ELSE attrs1
        m2 == IF has_out
              THEN HandleAll(OUTPUT, g["outputAssessments"][out_id], attrs2, m1)
              ELSE m1
    IN  IF is_guardrail_activated(response)
        THEN [m2 EXCEPT !.guardrail_counter = Append(@, Rec(1, attrs2))]
        ELSE m2

\* guardrail.py:130-134: the loop over outputs from entry i on. The assessment
\* is read from the first entry, outputs[0][g_id]; a key the first entry does
\* not have raises KeyError, which nothing catches. What was recorded before
\* stays recorded.
RECURSIVE HandleOutputs(_, _, _, _)
HandleOutputs(outputs, i, attrs, m) ==
    IF i > Len(outputs)
    THEN [m |-> m, attrs |-> attrs, raised |-> None]
    ELSE LET g_id == FirstKey(outputs[i])
             a == Put(attrs, "gen_ai.guardrail", g_id)
         IN  IF g_id \notin DOMAIN outputs[1]
             THEN [m |-> m, attrs |-> a, raised |-> "KeyError"]
             ELSE HandleOutputs(outputs, i + 1, a, _handle(OUTPUT, outputs[1][g_id], a, m))

\* guardrail.py:113-137: the metrics after guardrail_handling(response_body,
\* vendor, model, m), and the error that left it, if one did.
guardrail_handling(response_body, vendor, model, m) ==
    IF "amazon-bedrock-guardrailAction" \notin DOMAIN response_body
    THEN [m |-> m, raised |-> None]
    ELSE LET attrs0 == ("gen_ai.vendor" :> vendor) @@ (LLM_RESPONSE_MODEL :> model)
                           @@ (LLM_SYSTEM :> "bedrock")
             has_g == IF "amazon-bedrock-trace" \in DOMAIN response_body
                      THEN "guardrail" \in DOMAIN response_body["amazon-bedrock-trace"]
                      ELSE FALSE
             g == response_body["amazon-bedrock-trace"]["guardrail"]
             has_in == IF has_g THEN "input" \in DOMAIN g ELSE FALSE
             has_out == IF has_g THEN "outputs" \in DOMAIN g ELSE FALSE
             in_id == FirstKey(g["input"])
             attrs1 == IF has_in THEN Put(attrs0, "gen_ai.guardrail", in_id) ELSE attrs0
             m1 == IF has_in THEN _handle(INPUT, g["input"][in_id], attrs1, m) ELSE m
             out == IF has_out
                    THEN HandleOutputs(g["outputs"], 1, attrs1, m1)
                    ELSE [m |-> m1, attrs |-> attrs1, raised |-> None]
         IN  IF out.raised # None
             THEN [m |-> out.m, raised |-> out.raised]
             ELSE IF is_guardrail_activated(response_body)
             THEN [m |-> [out.m EXCEPT !.guardrail_counter = Append(@, Rec(1, out.attrs))],
                   raised |-> None]
             ELSE [m |-> out.m, raised |-> None]

\* --------------------------------------------------------------- registry
\* instruments.py:4-33: the class body of Instruments, name and value of each
\* assignment in order.
InstrumentsBody ==
    << <<"ALEPHALPHA", "alephalpha">>,
       <<"ANTHROPIC", "anthropic">>,
       <<"BEDROCK", "bedrock">>,
       <<"CHROMA", "chroma">>,
       <<"COHERE", "cohere">>,
       <<"GOOGLE_GENERATIVEAI", "google_generativeai">>,
       <<"GROQ", "groq">>,
       <<"HAYSTACK", "haystack">>,
       <<"LANCEDB", "lancedb">>,
       <<"LANGCHAIN", "langchain">>,
       <<"LLAMA_INDEX", "llama_index">>,
       <<"MARQO", "marqo">>,
       <<"MILVUS", "milvus">>,
       <<"MISTRAL", "mistral">>,
       <<"OLLAMA", "ollama">>,
       <<"OPENAI", "openai">>,
       <<"PINECONE", "pinecone">>,
       <<"PYMYSQL", "pymysql">>,
       <<"QDRANT", "qdrant">>,
       <<"REDIS", "redis">>,
       <<"REPLICATE", "replicate">>,
       <<"REQUESTS", "requests">>,
       <<"SAGEMAKER", "sagemaker">>,
       <<"TOGETHER", "together">>,
       <<"TRANSFORMERS", "transformers">>,
       <<"URLLIB3", "urllib3">>,
       <<"VERTEXAI", "vertexai">>,
       <<"WATSONX", "watsonx">>,
       <<"WEAVIATE", "weaviate">> >>

\* The members an Enum class body gives, in definition order: an assignment
\* whose value an earlier one already has makes an alias, not a member.
Members(body) ==
    LET IsMember(i) == \A j \in 1..(i - 1) : body[j][2] # body[i][2]
        Pick[i \in 0..Len(body)] ==
            IF i = 0 THEN <<>>
            ELSE IF IsMember(i)
                 THEN Append(Pick[i - 1], [name |-> body[i][1], value |-> body[i][2]])
                 ELSE Pick[i - 1]
    IN  Pick[Len(body)]

\* variant: the class without its last assignment
instruments_without_last_member ==
    Members(SubSeq(InstrumentsBody, 1, Len(InstrumentsBody) - 1))

\* instruments.py:4-33
Instruments == Members(InstrumentsBody)

\* Instruments(value): the member with that value, ValueError when none has it
InstrumentsByValue(v) ==
    IF \E i \in 1..Len(Instruments) : Instruments[i].value = v
    THEN Instruments[CHOOSE i \in 1..Len(Instruments) : Instruments[i].value = v].name
    ELSE "ValueError"

\* ---------------------------------------------------------------- actions
Top == stack[Len(stack)]

\* An await, or the advance of an async generator, is possible at the top level
\* of the chain and inside the body of a coroutine function.
CanAwait == IF stack = <<>> THEN TRUE ELSE Top.e.shape = "coroutine"

Install(w) ==
    /\ ctx' = w.ctx
    /\ tokens' = w.tokens
    /\ spans' = w.spans
    /\ log' = w.log

\* base.py:34-36 and 136-138, tracing not initialized: entity_method returns
\* fn(...) as it is; aentity_method awaits it, and awaiting anything but a
\* coroutine raises TypeError.
CallBypass(e) ==
    /\ UNCHANGED <<ctx, tokens, spans, log, gens>>
    /\ IF RunsBody(e)
       THEN /\ Len(stack) < MaxDepth
            /\ stack' = Append(stack, [e |-> e, traced |-> FALSE, span |-> 0, token |-> 0])
            /\ result' = [got |-> NoResult, own |-> NoResult]
       ELSE /\ stack' = stack
            /\ result' = [got |-> IF e.dec = "entity_method"
                                  THEN Object(e.shape)
                                  ELSE Error("TypeError"),
                          own |-> Object(e.shape)]

\* base.py:38-82 and 140-182, tracing initialized, up to the point where the
\* wrapped body runs or the wrapping generator is returned.
CallTraced(e, args, n) ==
    LET p == wrap_prelude(World, e, args) IN
    /\ Install(p.w)
    /\ IF p.raised # None
       THEN /\ result' = [got |-> Error(p.raised), own |-> NoResult]
            /\ UNCHANGED <<stack, gens>>
       ELSE IF RunsBody(e)
       THEN /\ Len(stack) < MaxDepth
            /\ stack' = Append(stack, [e |-> e, traced |-> TRUE,
                                       span |-> p.span, token |-> p.token])
            /\ result' = [got |-> NoResult, own |-> NoResult]
            /\ UNCHANGED gens
       ELSE /\ gens' = Append(gens, [async |-> e.dec = "aentity_method",
                                     span |-> p.span, token |-> p.token,
                                     items |-> n, state |-> "created", yielded |-> 0])
            /\ result' = [got |-> Object(e.shape), own |-> Object(e.shape)]
            /\ UNCHANGED stack

\* A call of the decorated callable e with the arguments args; n is the number
\* of items the generator it returns (if it returns one) will produce.
Call(e, args, n) ==
    /\ calls < MaxCalls
    /\ calls' = calls + 1
    /\ e.dec = "aentity_method" => CanAwait
    /\ n # 0 => e.shape \in {"generator", "async_generator"}
    /\ UNCHANGED <<initialized, env, guardVars, chainVars, registryVars>>
    /\ IF initialized THEN CallTraced(e, args, n) ELSE CallBypass(e)

\* The wrapped body of the innermost frame returns v: wrap goes on from line 84
\* (187) to its return. Without tracing the value is returned as it is.
Return(v) ==
    /\ stack # <<>>
    /\ stack' = SubSeq(stack, 1, Len(stack) - 1)
    /\ UNCHANGED <<initialized, env, gens, calls, guardVars, chainVars, registryVars>>
    /\ IF Top.traced
       THEN LET f == wrap_finish(World, Top.span, Top.token, v) IN
            /\ Install(f.w)
            /\ result' = [got |-> IF f.raised # None THEN Error(f.raised) ELSE Value(v),
                          own |-> Value(v)]
       ELSE /\ UNCHANGED <<ctx, tokens, spans, log>>
            /\ result' = [got |-> Value(v), own |-> Value(v)]

\* The wrapped body of the innermost frame raises: nothing in wrap catches it,
\* so the error leaves wrap as it is and lines 84-98 are not run.
Raise ==
    /\ stack # <<>>
    /\ stack' = SubSeq(stack, 1, Len(stack) - 1)
    /\ result' = [got |-> Error("AppError"), own |-> Error("AppError")]
    /\ UNCHANGED <<initialized, env, ctx, tokens, spans, log, gens, calls, guardVars,
                   chainVars, registryVars>>

\* The consumer advances the wrapping generator i once.
Advance(i) ==
    /\ gens[i].state # "done"
    /\ gens[i].async => CanAwait
    /\ LET r == IF gens[i].async
                THEN _ahandle_generator(World, gens[i])
                ELSE _handle_generator(World, gens[i])
       IN  /\ Install(r.w)
           /\ gens' = [gens EXCEPT ![i] = r.g]
    /\ UNCHANGED <<initialized, env, stack, result, calls, guardVars, chainVars, registryVars>>

\* --------------------------------------------------------- specifications

\* The call chains: threads for synchronous code, tasks for asynchronous code.
\* Each has a context of its own, empty when the chain starts.
Chains == {1, 2}

InitCommon ==
    /\ tokens = <<>>
    /\ spans = <<>>
    /\ log = <<>>
    /\ stack = <<>>
    /\ gens = <<>>
    /\ result = [got |-> NoResult, own |-> NoResult]
    /\ calls = 0
    /\ metrics = NoMetrics
    /\ handled = <<>>
    /\ chain = 1
    /\ iterated = <<>>
    /\ looked = [value |-> None, member |-> None]
    /\ parked = [c \in Chains |-> [ctx |-> EmptyContext, stack |-> <<>>]]

\* The decorated callables of the traced program. They are called in any order
\* and nesting; aentity_method wraps coroutine and async generator functions,
\* entity_method plain and generator functions.
Entities ==
    { entity_method(None, 0, TASK, "a", "function"),
      entity_method("b", 0, TOOL, "make_b", "generator"),
      entity_method("g", 2, AGENT, "run_g", "function"),
      aentity_method("w", 1, WORKFLOW, "run_w", "coroutine"),
      aentity_method(None, 0, TASK, "c", "async_generator") }

\* Spec: tracing initialized, content tracing at its default.
Init ==
    /\ initialized = TRUE
    /\ env = None
    /\ ctx = EmptyContext
    /\ InitCommon

Next ==
    \/ \E e \in Entities, n \in 0..MaxItems : Call(e, "len999999", n)
    \/ Return("len999999")
    \/ Raise
    \/ \E i \in 1..Len(gens) : Advance(i)

Spec == Init /\ [][Next]_vars

\* SpecBypass: tracing not initialized. Every decorator, on every kind of
\* callable it is applied to.
BypassEntities ==
    { entity_method(None, 0, TASK, "f", "function"),
      entity_method(None, 0, TASK, "gen", "generator"),
      entity_method("co", 1, WORKFLOW, "run_co", "coroutine"),
      entity_method(None, 0, TOOL, "agen", "async_generator"),
      aentity_method(None, 0, TASK, "aco", "coroutine"),
      aentity_method("stream", 1, AGENT, "run_stream", "async_generator"),
      entity_class(None, 0, "ImageClassifier", "run", TASK, "function"),
      aentity_class("cls", 0, "ImageClassifier", "arun", TASK, "coroutine") }

InitBypass ==
    /\ initialized = FALSE
    /\ env \in {None, "false"}
    /\ ctx = EmptyContext
    /\ InitCommon

NextBypass ==
    \/ \E e \in BypassEntities, args \in Payloads : Call(e, args, 0)
    \/ \E v \in Payloads : Return(v)
    \/ Raise

SpecBypass == InitBypass /\ [][NextBypass]_vars

\* SpecContent: tracing initialized; the environment variable, the ambient
\* override, the arguments and the returned values range over their cases. The
\* calls are made one after another at the top level.
EnvValues == {None, "", "TRUE", "false"}
OverrideValues == {None, "True"}

ContentEntities ==
    { entity_method(None, 0, TASK, "a", "function"),
      aentity_method(None, 1, TASK, "c", "coroutine") }

InitContent ==
    /\ initialized = TRUE
    /\ env \in EnvValues
    /\ \E o \in OverrideValues :
         ctx = [EmptyContext EXCEPT !.override_enable_content_tracing = o]
    /\ InitCommon

NextContent ==
    \/ /\ stack = <<>>
       /\ \E e \in ContentEntities, args \in Payloads : Call(e, args, 0)
    \/ \E v \in Payloads : Return(v)

SpecContent == InitContent /\ [][NextContent]_vars

\* SpecChains: two independent call chains run traced calls in any
\* interleaving. The runtime gives every thread and every task a context of its
\* own: when another chain gets to run, at an await (base.py:185), between two
\* advances of a wrapping generator, or at any point for threads, its context
\* becomes the current one and the context of the chain that stops running is
\* kept for it. Tokens, spans and the tracing calls are one set for the process.
Switch(c) ==
    /\ c # chain
    /\ chain' = c
    /\ parked' = [parked EXCEPT ![chain] = [ctx |-> ctx, stack |-> stack]]
    /\ ctx' = parked[c].ctx
    /\ stack' = parked[c].stack
    /\ UNCHANGED <<initialized, env, tokens, spans, log, gens, result, calls, guardVars,
                   registryVars>>

\* The decorated callables each chain calls; the names tell the chains apart.
ChainEntities(c) ==
    IF c = 1
    THEN { entity_method(None, 0, TASK, "a1", "function"),
           aentity_method(None, 0, TASK, "c1", "async_generator") }
    ELSE { aentity_method(None, 0, TOOL, "w2", "coroutine"),
           aentity_method(None, 0, TASK, "c2", "async_generator") }

ChainNames(c) == { entity_name(e) : e \in ChainEntities(c) }

\* The chain whose call started span s
OwnerOf(s) == CHOOSE c \in Chains : spans[s].name[1] \in ChainNames(c)

InitChains ==
    /\ initialized = TRUE
    /\ env = None
    /\ ctx = EmptyContext
    /\ InitCommon

NextChains ==
    \/ \E e \in ChainEntities(chain), n \in 0..MaxItems : Call(e, "len999999", n)
    \/ Return("len999999")
    \/ Raise
    \/ \E i \in 1..Len(gens) : OwnerOf(gens[i].span) = chain /\ Advance(i)
    \/ \E c \in Chains : Switch(c)

SpecChains == InitChains /\ [][NextChains]_vars

\* SpecInvoke: invoke-shaped response bodies handled one after another. Every
\* assessment carries a processing latency, so that each assessment handled
\* leaves one record in the latency histogram.
InvokeAssessments ==
    { [invocationMetrics |-> [guardrailProcessingLatency |-> 7]],
      [invocationMetrics |-> [guardrailProcessingLatency |-> 9],
       topicPolicy |-> [topics |-> <<[name |-> "finance"]>>]] }

OutputsLists ==
    { <<>> }
    \cup { <<"g1" :> a>> : a \in InvokeAssessments }
    \cup { <<"g1" :> a, k :> b>> :
              a \in InvokeAssessments, b \in InvokeAssessments, k \in {"g1", "g2"} }

InvokeTraces ==
    { [guardrail |-> <<>>] }
    \cup { [guardrail |-> [input |-> ("g0" :> a)]] : a \in InvokeAssessments }
    \cup { [guardrail |-> [outputs |-> o]] : o \in OutputsLists }
    \cup { [guardrail |-> [input |-> ("g0" :> a), outputs |-> o]] :
              a \in {[invocationMetrics |-> [guardrailProcessingLatency |-> 7]]},
              o \in OutputsLists }

ResponseBodies ==
    { [completion |-> "text"] }
    \cup { ("amazon-bedrock-guardrailAction" :> act) : act \in {"NONE", "INTERVENED"} }
    \cup { ("amazon-bedrock-guardrailAction" :> act) @@ ("amazon-bedrock-trace" :> t) :
              act \in {"NONE", "INTERVENED"}, t \in InvokeTraces }
    \cup { ("amazon-bedrock-trace" :> t) : t \in InvokeTraces }

GuardrailHandling(response_body) ==
    LET r == guardrail_handling(response_body, "ai21", "j2-mid", metrics) IN
    /\ Len(handled) < MaxCalls
    /\ handled' = Append(handled, response_body)
    /\ metrics' = r.m
    /\ result' = [got |-> IF r.raised # None THEN Error(r.raised) ELSE Value(None),
                  own |-> NoResult]
    /\ UNCHANGED <<initialized, env, ctx, tokens, spans, log, stack, gens, calls,
                   chainVars, registryVars>>

InitInvoke ==
    /\ initialized = TRUE
    /\ env = None
    /\ ctx = EmptyContext
    /\ InitCommon

NextInvoke == \E response_body \in ResponseBodies : GuardrailHandling(response_body)

SpecInvoke == InitInvoke /\ [][NextInvoke]_vars

\* SpecRegistry: a consumer iterates over Instruments and looks members up by
\* value, in any order.
Iterate ==
    /\ Len(iterated) < Len(Instruments)
    /\ iterated' = Append(iterated, Instruments[Len(iterated) + 1])
    /\ UNCHANGED <<tracingVars, guardVars, chainVars, looked>>

LookupValues == { InstrumentsBody[i][2] : i \in 1..Len(InstrumentsBody) } \cup {"crewai"}

Lookup(v) ==
    /\ looked' = [value |-> v, member |-> InstrumentsByValue(v)]
    /\ UNCHANGED <<tracingVars, guardVars, chainVars, iterated>>

InitRegistry ==
    /\ initialized = TRUE
    /\ env = None
    /\ ctx = EmptyContext
    /\ InitCommon

NextRegistry ==
    \/ Iterate
    \/ \E v \in LookupValues : Lookup(v)

SpecRegistry == InitRegistry /\ [][NextRegistry]_vars

\* SpecGuard: converse responses handled one after another.
Opt(present, k, v) == IF present THEN k :> v ELSE <<>>

ResultsValues ==
    { <<>>,
      <<[completionReason |-> "FINISH"]>>,
      <<[completionReason |-> "FINISH"], [completionReason |-> "CONTENT_FILTERED"]>>,
      <<[outputText |-> "text"]>> }

Assessments ==
    { [sensitiveInformationPolicy |->
          [piiEntities |-> <<[type |-> "EMAIL"], [type |-> "NAME"]>>,
           regexes |-> <<[name |-> "ticket"]>>]],
      [invocationMetrics |->
          [guardrailProcessingLatency |-> 7,
           guardrailCoverage |-> [textCharacters |-> [guarded |-> 5]]],
       topicPolicy |-> [topics |-> <<[name |-> "finance"]>>],
       contentPolicy |-> [filters |-> <<[type |-> "HATE", confidence |-> "HIGH"]>>],
       wordPolicy |-> [customWords |-> <<[match |-> "badword"]>>,
                       managedWordLists |-> <<[match |-> "profanity"]>>]] }

Traces ==
    { [guardrail |-> <<>>] }
    \cup { [guardrail |-> [inputAssessment |-> ("g1" :> a)]] : a \in Assessments }
    \cup { [guardrail |-> [outputAssessments |-> ("g2" :> <<a, b>>)]] :
              a \in Assessments, b \in Assessments }
    \cup { [guardrail |-> [inputAssessment |-> ("g1" :> a),
                           outputAssessments |-> ("g2" :> <<b>>)]] :
              a \in Assessments, b \in Assessments }

Responses ==
    { Opt(hr, "results", r) @@ Opt(hs, "stopReason", st)
          @@ Opt(ha, "amazon-bedrock-guardrailAction", act) :
        hr \in BOOLEAN, r \in ResultsValues, hs \in BOOLEAN,
        st \in {"end_turn", "guardrail_intervened"},
        ha \in BOOLEAN, act \in {"NONE", "INTERVENED"} }
    \cup { [trace |-> t] : t \in Traces }
    \cup { [trace |-> t, stopReason |-> "guardrail_intervened"] : t \in Traces }

GuardrailConverse(response) ==
    /\ Len(handled) < MaxCalls
    /\ handled' = Append(handled, response)
    /\ metrics' = guardrail_converse(response, "ai21", "j2-mid", metrics)
    /\ UNCHANGED <<tracingVars, chainVars, registryVars>>

InitGuard ==
    /\ initialized = TRUE
    /\ env = None
    /\ ctx = EmptyContext
    /\ InitCommon

NextGuard == \E response \in Responses : GuardrailConverse(response)

SpecGuard == InitGuard /\ [][NextGuard]_vars

\* ============================================================ properties
Before(e1, i1, e2, i2) ==
    \E m \in Positions(e1, i1) : \E n \in Positions(e2, i2) : m < n

\* C1 (Bypass): with tracing not initialized, a decorated call gives its caller
\* exactly the wrapped callable's own outcome (result or error), starts no
\* span, writes no attribute, attaches no context and leaves the ambient
\* workflow name and entity path alone.
C1_Bypass ==
    ~initialized =>
        /\ result.got = result.own
        /\ spans = <<>> /\ log = <<>> /\ tokens = <<>>
        /\ ctx = EmptyContext

\* C2 (synchronous generator span lifetime): the span of a wrapping generator
\* is not ended while the generator is not exhausted, and has been ended
\* exactly once, by the advance that found it exhausted, once it is.
C2_SyncGeneratorSpanLifetime ==
    \A i \in 1..Len(gens) : ~gens[i].async =>
        /\ gens[i].state # "done" => Ends(gens[i].span) = 0
        /\ gens[i].state = "done" =>
              /\ Ends(gens[i].span) = 1
              /\ gens[i].items = 0

\* two wrapping generators exhausted, one that produced nothing and one that
\* produced MaxItems items
C2_Witness ==
    \E i, j \in 1..Len(gens) :
        /\ ~gens[i].async /\ gens[i].state = "done" /\ gens[i].yielded = 0
        /\ ~gens[j].async /\ gens[j].state = "done" /\ gens[j].yielded = MaxItems
        /\ Ends(gens[i].span) = 1 /\ Ends(gens[j].span) = 1

\* C3 (asynchronous generator span lifetime): until a wrapping async generator
\* is exhausted its span is not ended and the token of its call is not
\* detached; once it is exhausted the span has been ended once and the token
\* detached once, the span end first.
C3_AsyncGeneratorSpanLifetime ==
    \A i \in 1..Len(gens) : gens[i].async =>
        /\ gens[i].state # "done" =>
              Ends(gens[i].span) = 0 /\ Detaches(gens[i].token) = 0
        /\ gens[i].state = "done" =>
              /\ Ends(gens[i].span) = 1 /\ Detaches(gens[i].token) = 1
              /\ Before("end", gens[i].span, "detach", gens[i].token)
              /\ gens[i].items = 0

C3_Witness ==
    \E i, j \in 1..Len(gens) :
        /\ gens[i].async /\ gens[i].state = "done" /\ gens[i].yielded = 0
        /\ gens[j].async /\ gens[j].state = "done" /\ gens[j].yielded = MaxItems
        /\ Detaches(gens[i].token) = 1 /\ Detaches(gens[j].token) = 1

\* The names of the TASK/TOOL entities whose calls are running, outermost first.
IsTaskTool(f) == f.traced /\ f.e.kind \in {TASK, TOOL}
EnclosingPath(st) ==
    LET fs == SelectSeq(st, IsTaskTool)
    IN  [i \in 1..Len(fs) |-> entity_name(fs[i].e)]

\* C4 (entity-path chaining): the entity path a TASK/TOOL entity sets when it
\* opens its span is the path of the TASK/TOOL calls that enclose it, with its
\* own name appended (its own name alone when none encloses it). Stated for the
\* calls made while no wrapping generator is pending, that is, when every call
\* that is not on the stack has completed.
C4_EntityPathChaining ==
    [][ ( /\ Len(spans') = Len(spans) + 1
          /\ spans'[Len(spans')].name[2] \in {TASK, TOOL}
          /\ \A i \in 1..Len(gens) : gens[i].state = "done" )
        => ctx'.entity_path =
              Append(EnclosingPath(stack), spans'[Len(spans')].name[1]) ]_vars

\* C5 (entity-path lifecycle): the ambient current span is never a span of a
\* completed invocation, and the ambient entity path is the path of an
\* invocation that has not completed.
C5_EntityPathLifecycle ==
    /\ ctx.span # 0 => Ends(ctx.span) = 0
    /\ ctx.entity_path # <<>> =>
          \E s \in 1..Len(spans) :
              Ends(s) = 0 /\ spans[s].entity_path = ctx.entity_path

\* Activation as stated: a filtered result, or the stop reason, or a guardrail
\* action that is present and is not "NONE".
ActivatedAsStated(r) ==
    \/ /\ "results" \in DOMAIN r
       /\ \E i \in 1..Len(r["results"]) :
             /\ "completionReason" \in DOMAIN r["results"][i]
             /\ r["results"][i]["completionReason"] = "CONTENT_FILTERED"
    \/ /\ "stopReason" \in DOMAIN r
       /\ r["stopReason"] = "guardrail_intervened"
    \/ /\ "amazon-bedrock-guardrailAction" \in DOMAIN r
       /\ r["amazon-bedrock-guardrailAction"] # "NONE"

\* C6 (guardrail activation): a response is activated exactly when one of the
\* three clauses holds (an absent guardrail action does not activate), and
\* guardrail_converse has added to guardrail_counter once for each activated
\* response and for no other.
C6_GuardrailActivation ==
    /\ \A i \in 1..Len(handled) :
          is_guardrail_activated(handled[i]) <=> ActivatedAsStated(handled[i])
    /\ Len(metrics.guardrail_counter) =
          Cardinality({i \in 1..Len(handled) : ActivatedAsStated(handled[i])})

\* The content-tracing rule as stated: unset, or "true" in any case, or a
\* truthy override.
EnabledAsStated ==
    \/ env = None
    \/ env \in {"true", "True", "TRUE"}
    \/ ctx.override_enable_content_tracing = "True"

\* The rule with the empty string counted as unset.
EnabledOrEmpty == EnabledAsStated \/ env = ""

Encodes(p) == json_dumps(p).raised = None
Fits(p) == json_dumps(p).len <= MaxJsonSize - 1

\* C7 (serialization failures are never surfaced): no error reaches the caller
\* of a traced call other than the wrapped callable's own, and once the calls
\* of the chain have returned every span has been ended.
C7_SerializationNeverSurfaced ==
    /\ result.got.type = "error" => result.got = result.own
    /\ stack = <<>> => \A s \in 1..Len(spans) : Ends(s) = 1

\* C8 as stated: an input or output attribute is written only when the
\* variable is unset or equal to "true" in any case, or the override is truthy.
C8_ContentToggleAsStated ==
    \A s \in 1..Len(spans) :
        (Wrote(s, TRACELOOP_ENTITY_INPUT) \/ Wrote(s, TRACELOOP_ENTITY_OUTPUT))
            => EnabledAsStated

\* C8 (content-tracing toggle), amended: content is traced exactly when the
\* variable is unset or empty, or equal to "true" in any case, or the override
\* is truthy. The input (output) attribute of a call is written only then, and
\* is written then whenever the value encodes to a string under the limit.
C8_ContentToggle ==
    \A s \in 1..Len(spans) :
        /\ (Wrote(s, TRACELOOP_ENTITY_INPUT) \/ Wrote(s, TRACELOOP_ENTITY_OUTPUT))
              => EnabledOrEmpty
        /\ (EnabledOrEmpty /\ Encodes(spans[s].args) /\ Fits(spans[s].args))
              => Wrote(s, TRACELOOP_ENTITY_INPUT)
        /\ (EnabledOrEmpty /\ spans[s].res # None
                /\ Encodes(spans[s].res) /\ Fits(spans[s].res))
              => Wrote(s, TRACELOOP_ENTITY_OUTPUT)

\* the variable set to the empty string, no override, and both attributes written
C8_Witness ==
    /\ env = "" /\ ctx.override_enable_content_tracing = None
    /\ \E s \in 1..Len(spans) :
          Wrote(s, TRACELOOP_ENTITY_INPUT) /\ Wrote(s, TRACELOOP_ENTITY_OUTPUT)

\* C9 (size guard): with content tracing enabled and a value that encodes, the
\* JSON string is written, as it is, exactly when its length is at most
\* MaxJsonSize - 1; a longer one is not written, raises nothing and leaves the
\* returned value alone.
C9_SizeGuard ==
    \A s \in 1..Len(spans) :
        /\ (EnabledOrEmpty /\ Encodes(spans[s].args)) =>
              /\ Written(s, TRACELOOP_ENTITY_INPUT, json_dumps(spans[s].args).text)
                    <=> json_dumps(spans[s].args).len <= MaxJsonSize - 1
              /\ Wrote(s, TRACELOOP_ENTITY_INPUT)
                    => Written(s, TRACELOOP_ENTITY_INPUT, json_dumps(spans[s].args).text)
        /\ (EnabledOrEmpty /\ spans[s].res # None /\ Encodes(spans[s].res)) =>
              /\ Written(s, TRACELOOP_ENTITY_OUTPUT, json_dumps(spans[s].res).text)
                    <=> json_dumps(spans[s].res).len <= MaxJsonSize - 1
              /\ Wrote(s, TRACELOOP_ENTITY_OUTPUT)
                    => Written(s, TRACELOOP_ENTITY_OUTPUT, json_dumps(spans[s].res).text)
              /\ (s = Len(spans) /\ stack = <<>>) => result.got = Value(spans[s].res)

\* a call whose input of MaxJsonSize - 1 characters was written and whose
\* output of MaxJsonSize characters was not, and one the other way round
C9_Witness ==
    \E s, t \in 1..Len(spans) :
        /\ spans[s].args = "len999999" /\ Wrote(s, TRACELOOP_ENTITY_INPUT)
        /\ spans[s].res = "len1000000" /\ ~Wrote(s, TRACELOOP_ENTITY_OUTPUT)
        /\ spans[t].args = "len1000000" /\ ~Wrote(t, TRACELOOP_ENTITY_INPUT)
        /\ spans[t].res = "len999999" /\ Wrote(t, TRACELOOP_ENTITY_OUTPUT)
        /\ Ends(s) = 1 /\ Ends(t) = 1

\* The WORKFLOW/AGENT calls that are running, outermost first.
IsWorkflowAgent(f) == f.traced /\ f.e.kind \in {WORKFLOW, AGENT}
WorkflowFrames(st) == SelectSeq(st, IsWorkflowAgent)

\* C10 (workflow-name propagation): while a WORKFLOW/AGENT call is running the
\* ambient workflow name is the name of the innermost one, and a call of a
\* TASK/TOOL entity leaves the workflow name as it was.
C10_WorkflowNamePropagation ==
    [][ /\ WorkflowFrames(stack') # <<>> =>
              ctx'.workflow_name =
                  entity_name(WorkflowFrames(stack')[Len(WorkflowFrames(stack'))].e)
        /\ (Len(spans') = Len(spans) + 1 /\ spans'[Len(spans')].name[2] \in {TASK, TOOL})
              => ctx'.workflow_name = ctx.workflow_name ]_vars

\* The context c holds only what chain k wrote: its current span is a span of
\* k and its entity path is made of names of k.
OwnContext(c, k) ==
    /\ c.span # 0 => OwnerOf(c.span) = k
    /\ \A i \in 1..Len(c.entity_path) : c.entity_path[i] \in ChainNames(k)

\* C11 (isolation of concurrent call chains): in every interleaving the
\* context of each chain, running or not, holds only a current span and an
\* entity path that the chain itself wrote (so no detach has restored another
\* chain's context), and the parent and the entity path a call read when it
\* opened its span are its own chain's.
C11_ChainIsolation ==
    /\ OwnContext(ctx, chain)
    /\ \A k \in Chains \ {chain} : OwnContext(parked[k].ctx, k)
    /\ \A s \in 1..Len(spans) :
          /\ spans[s].parent # 0 => OwnerOf(spans[s].parent) = OwnerOf(s)
          /\ \A i \in 1..Len(spans[s].entity_path) :
                spans[s].entity_path[i] \in ChainNames(OwnerOf(s))

\* two calls of different chains that overlap without being nested: the
\* second started while the first was running, and the first returned (its
\* token detached) while the second was still running
C11_Witness ==
    \E s, t \in 1..Len(spans) :
        /\ OwnerOf(s) # OwnerOf(t)
        /\ Before("start", s, "start", t)
        /\ Before("start", t, "end", s)
        /\ Ends(s) = 1 /\ Ends(t) = 0
        /\ chain = OwnerOf(t) /\ ctx.span = t

\* The identifiers of the registry's literal set as the specification lists them.
ListedIdentifiers ==
    { "alephalpha", "anthropic", "bedrock", "chroma", "cohere",
      "google_generativeai", "groq", "haystack", "lancedb", "langchain",
      "llama_index", "marqo", "milvus", "mistral", "ollama", "openai",
      "pinecone", "pymysql", "qdrant", "redis", "replicate", "requests",
      "sagemaker", "together", "transformers", "urllib3", "vertexai",
      "watsonx", "weaviate" }

InstrumentValues == { Instruments[i].value : i \in 1..Len(Instruments) }

\* What iteration and lookup give, whatever the number of members: iteration
\* follows the members in order, and a lookup by value gives the member with
\* that value, or ValueError for a value no member has.
RegistryConsumers ==
    /\ iterated = SubSeq(Instruments, 1, Len(iterated))
    /\ looked.value # None =>
          IF looked.value \in ListedIdentifiers
          THEN \E i \in 1..Len(Instruments) :
                  /\ Instruments[i].value = looked.value
                  /\ Instruments[i].name = looked.member
          ELSE looked.member = "ValueError"

\* C12 as stated: the enumeration has exactly 30 members, with pairwise
\* distinct values, and its values are the listed identifiers.
C12_RegistryThirtyMembers ==
    /\ Len(Instruments) = 30
    /\ Cardinality(InstrumentValues) = Len(Instruments)
    /\ InstrumentValues = ListedIdentifiers
    /\ RegistryConsumers

\* C12 (registry completeness), amended: the enumeration has exactly 29
\* members, their values are pairwise distinct, and the set of values is the
\* set of listed identifiers (29 of them); iteration gives each member once
\* and every listed identifier looks up to the member that has it.
C12_RegistryCompleteness ==
    /\ Len(Instruments) = 29
    /\ Cardinality(InstrumentValues) = Len(Instruments)
    /\ InstrumentValues = ListedIdentifiers
    /\ Cardinality(ListedIdentifiers) = 29
    /\ RegistryConsumers

\* iteration has gone through all the members and the last listed identifier
\* has been looked up
C12_Witness ==
    /\ Len(iterated) = Len(Instruments)
    /\ iterated[Len(iterated)].value = "weaviate"
    /\ looked = [value |-> "weaviate", member |-> "WEAVIATE"]

\* The types of the piiEntities of an assessment, in order
PiiTypes(a) ==
    IF "sensitiveInformationPolicy" \in DOMAIN a
    THEN IF "piiEntities" \in DOMAIN a["sensitiveInformationPolicy"]
         THEN [i \in 1..Len(a["sensitiveInformationPolicy"]["piiEntities"]) |->
                  a["sensitiveInformationPolicy"]["piiEntities"][i]["type"]]
         ELSE <<>>
    ELSE <<>>

HasAssessment(r, k) ==
    IF "trace" \in DOMAIN r
    THEN IF "guardrail" \in DOMAIN r["trace"]
         THEN k \in DOMAIN r["trace"]["guardrail"]
         ELSE FALSE
    ELSE FALSE

\* For one response: the (guardrail id, pii type) pairs of its input
\* assessment, in order, and the number of pii entries of its output assessments.
InputPii(r) ==
    IF HasAssessment(r, "inputAssessment")
    THEN LET ia == r["trace"]["guardrail"]["inputAssessment"]
             g  == CHOOSE k \in DOMAIN ia : TRUE
         IN  [i \in 1..Len(PiiTypes(ia[g])) |-> <<g, PiiTypes(ia[g])[i]>>]
    ELSE <<>>

RECURSIVE CountPii(_)
CountPii(infos) ==
    IF infos = <<>> THEN 0 ELSE Len(PiiTypes(Head(infos))) + CountPii(Tail(infos))

OutputPiiCount(r) ==
    IF HasAssessment(r, "outputAssessments")
    THEN LET oa == r["trace"]["guardrail"]["outputAssessments"]
         IN  CountPii(oa[CHOOSE k \in DOMAIN oa : TRUE])
    ELSE 0

RECURSIVE AllInputPii(_)
AllInputPii(rs) == IF rs = <<>> THEN <<>> ELSE InputPii(Head(rs)) \o AllInputPii(Tail(rs))

RECURSIVE AllOutputPiiCount(_)
AllOutputPiiCount(rs) ==
    IF rs = <<>> THEN 0 ELSE OutputPiiCount(Head(rs)) + AllOutputPiiCount(Tail(rs))

\* The sensitive-info additions that carry a pii attribute, of one direction
IsPii(rec) == "gen_ai.guardrail.pii" \in DOMAIN rec.attributes
IsInputPii(rec) == IsPii(rec) /\ rec.attributes["gen_ai.guardrail.type"] = "input"
IsOutputPii(rec) == IsPii(rec) /\ rec.attributes["gen_ai.guardrail.type"] = "output"

\* C13 (converse extraction): the additions to the sensitive-info counter that
\* carry a pii attribute and the type 'input' are, in order, one addition of 1
\* for each piiEntities entry of each handled response's input assessment,
\* with the assessment's key as gen_ai.guardrail and the entry's type as
\* gen_ai.guardrail.pii; the pii entries of the output assessments are
\* recorded with the type 'output', one addition of 1 each, and with no other type.
C13_ConverseExtraction ==
    LET inp == SelectSeq(metrics.guardrail_sensitive_info, IsInputPii)
        out == SelectSeq(metrics.guardrail_sensitive_info, IsOutputPii)
        all == SelectSeq(metrics.guardrail_sensitive_info, IsPii)
    IN  /\ [i \in 1..Len(inp) |-> <<inp[i].attributes["gen_ai.guardrail"],
                                     inp[i].attributes["gen_ai.guardrail.pii"]>>]
              = AllInputPii(handled)
        /\ Len(out) = AllOutputPiiCount(handled)
        /\ Len(all) = Len(inp) + Len(out)
        /\ \A i \in 1..Len(all) : all[i].value = 1

\* a response with pii entries in its input assessment and in its output
\* assessment has been handled
C13_Witness ==
    /\ \E i \in 1..Len(handled) :
          Len(InputPii(handled[i])) = 2 /\ OutputPiiCount(handled[i]) = 2
    /\ \E i, j \in 1..Len(metrics.guardrail_sensitive_info) :
          /\ IsInputPii(metrics.guardrail_sensitive_info[i])
          /\ metrics.guardrail_sensitive_info[i].attributes["gen_ai.guardrail"] = "g1"
          /\ metrics.guardrail_sensitive_info[i].attributes["gen_ai.guardrail.pii"] = "EMAIL"
          /\ IsOutputPii(metrics.guardrail_sensitive_info[j])
          /\ metrics.guardrail_sensitive_info[j].attributes["gen_ai.guardrail"] = "g2"

\* The spans of calls that returned no wrapping generator
NonGenerator(s) == \A i \in 1..Len(gens) : gens[i].span # s

\* The positions in the log of the writes of attribute k of span s
AttrPositions(s, k) == {n \in Positions("set_attribute", s) : log[n].key = k}

\* Every position of P is before every position of Q
AllBefore(P, Q) == \A n \in P : \A m \in Q : n < m

\* What holds whichever attribute is meant: the start comes first, the
\* wrapped callable is invoked before the span is ended, and nothing is
\* written after the end.
StartInvokeEnd(s) ==
    /\ \A n \in 1..Len(log) :
          (log[n].id = s /\ log[n].ev \in {"set_attribute", "invoke", "end"})
              => AllBefore(Positions("start", s), {n})
    /\ AllBefore(Positions("invoke", s), Positions("end", s))
    /\ AllBefore(Positions("set_attribute", s), Positions("end", s))

\* C14 as stated: every attribute write of a call, the output included, comes
\* before the invocation of the wrapped callable.
C14_OrderingAsStated ==
    \A s \in 1..Len(spans) : NonGenerator(s) =>
        /\ StartInvokeEnd(s)
        /\ AllBefore(Positions("set_attribute", s), Positions("invoke", s))

\* C14 (per-call ordering), amended: span start, then the writes of kind,
\* name, version and input, then the invocation of the wrapped callable, then
\* the write of the output, then span end; no attribute is written after the
\* span end, and only the output is written after the invocation.
C14_PerCallOrdering ==
    \A s \in 1..Len(spans) : NonGenerator(s) =>
        /\ StartInvokeEnd(s)
        /\ \A k \in {TRACELOOP_SPAN_KIND, TRACELOOP_ENTITY_NAME,
                      TRACELOOP_ENTITY_VERSION, TRACELOOP_ENTITY_INPUT} :
              AllBefore(AttrPositions(s, k), Positions("invoke", s))
        /\ AllBefore(Positions("invoke", s), AttrPositions(s, TRACELOOP_ENTITY_OUTPUT))
        /\ \A n \in Positions("set_attribute", s) :
              log[n].key \in {TRACELOOP_SPAN_KIND, TRACELOOP_ENTITY_NAME,
                              TRACELOOP_ENTITY_VERSION, TRACELOOP_ENTITY_INPUT,
                              TRACELOOP_ENTITY_OUTPUT}

\* a call that wrote all five attributes, invoked the wrapped callable and
\* ended its span
C14_Witness ==
    \E s \in 1..Len(spans) :
        /\ NonGenerator(s)
        /\ \A k \in {TRACELOOP_SPAN_KIND, TRACELOOP_ENTITY_NAME,
                      TRACELOOP_ENTITY_VERSION, TRACELOOP_ENTITY_INPUT,
                      TRACELOOP_ENTITY_OUTPUT} : Wrote(s, k)
        /\ Positions("invoke", s) # {}
        /\ Ends(s) = 1

\* The outputs list of an invoke-shaped body that guardrail_handling looks at
\* (<<>> when it has none or lacks the guardrail action)
OutputsOf(body) ==
    IF "amazon-bedrock-guardrailAction" \in DOMAIN body
    THEN IF "amazon-bedrock-trace" \in DOMAIN body
         THEN IF "guardrail" \in DOMAIN body["amazon-bedrock-trace"]
              THEN IF "outputs" \in DOMAIN body["amazon-bedrock-trace"]["guardrail"]
                   THEN body["amazon-bedrock-trace"]["guardrail"]["outputs"]
                   ELSE <<>>
              ELSE <<>>
         ELSE <<>>
    ELSE <<>>

RECURSIVE AllOutputsEntries(_)
AllOutputsEntries(bodies) ==
    IF bodies = <<>> THEN 0
    ELSE Len(OutputsOf(Head(bodies))) + AllOutputsEntries(Tail(bodies))

IsOutputLatency(rec) == rec.attributes[LLM_TOKEN_TYPE] = "output"

\* C15 (invoke-shaped output processing): for every handled body that has the
\* guardrail action, one assessment has been processed as OUTPUT for each
\* entry of its outputs list, whatever the first keys of the entries, no error
\* has left guardrail_handling, and the activation check has been reached:
\* guardrail_counter has one addition for each such body that is activated.
C15_InvokeOutputs ==
    /\ result.got.type # "error"
    /\ Len(SelectSeq(metrics.guardrail_latency_histogram, IsOutputLatency))
          = AllOutputsEntries(handled)
    /\ Len(metrics.guardrail_counter) =
          Cardinality({i \in 1..Len(handled) :
                          /\ "amazon-bedrock-guardrailAction" \in DOMAIN handled[i]
                          /\ handled[i]["amazon-bedrock-guardrailAction"] # "NONE"})

\* The token of the attach that follows the start of span s (base.py:47-49)
TokenOf(s) == log[(CHOOSE n \in Positions("start", s) : TRUE) + 1].id

\* The spans of non-generator calls whose wrapped callable has returned a value
ReturnedNormally(s) == NonGenerator(s) /\ spans[s].res # None

\* C16 (span/token balance on normal return): the span of every traced
\* non-generator call whose wrapped callable returned normally has been ended
\* exactly once and the token of the call's attach detached exactly once, after
\* the span end; of two such calls, one nested in the other, the inner one's
\* token was detached first.
C16_SpanTokenBalance ==
    /\ \A s \in 1..Len(spans) : ReturnedNormally(s) =>
          /\ Cardinality(Positions("start", s)) = 1
          /\ Ends(s) = 1
          /\ Detaches(TokenOf(s)) = 1
          /\ AllBefore(Positions("end", s), Positions("detach", TokenOf(s)))
    /\ \A s, t \in 1..Len(spans) :
          ( /\ ReturnedNormally(s) /\ ReturnedNormally(t)
            /\ AllBefore(Positions("start", s), Positions("start", t))
            /\ s # t
            /\ AllBefore(Positions("start", t), Positions("end", s)) )
          => AllBefore(Positions("detach", TokenOf(t)), Positions("detach", TokenOf(s)))
====
